---- MODULE Spec2Model ----
(***************************************************************************)
(* Model of update_deployment_status.py: the deployment-status reconciler. *)
(* One run of the script is a sequential process (main -> configuration    *)
(* check -> polling rounds with sleeps -> one update -> exit) interleaved  *)
(* with the upstream automation, which inserts records into the store, and *)
(* with the passage of time.                                               *)
(***************************************************************************)
EXTENDS Integers, Sequences, FiniteSets, TLC

(* ------------------------------ bounds --------------------------------- *)

\* wall-clock second at which the run starts
StartTime == 1000
\* most records the store holds when the run starts
MaxInitRecords == 1
\* most records the store ever holds
MaxRecords == 2
\* most seconds that pass besides the sleeps (network calls, scheduling)
MaxDrift == 1

(* ------------------------- program constants --------------------------- *)

\* find_deployment_record(..., max_attempts=6, wait_seconds=10)
max_attempts == 6
wait_seconds == 10
\* if age_seconds < 300
FreshnessSeconds == 300

(* ------------------------------ inputs --------------------------------- *)

\* sys.argv: a missing argument, an invalid status, the two valid statuses
ArgvChoices ==
    { <<"prog">>, <<"prog", "Success">>,
      <<"prog", "Done", "target">>,
      <<"prog", "Success", "target">>, <<"prog", "Failed", "target">> }

\* os.getenv: None when the variable is unset, else its (maybe empty) value
EnvValues == {"None", "", "value"}

\* the build this run reports on finished CurBuildAge seconds before the run
\* starts; the build before it finished PrevBuildAge seconds before the start
CurBuildAge == 5
PrevBuildAge == 400

\* age, at the start of the run, of the records the store already holds
PrevAges == {299, 300, 301, 400}
CurAges == {5}

\* createdTime as the store prints it: a fixed-width string of digits
Iso(t) == << (t \div 1000) % 10, (t \div 100) % 10, (t \div 10) % 10, t % 10 >>

\* datetime.fromisoformat(...): the instant a createdTime string denotes
fromisoformat(s) == s[1] * 1000 + s[2] * 100 + s[3] * 10 + s[4]

\* Python's str comparison: lexicographic, on strings of the same length
StrGreater(a, b) ==
    \E i \in 1..Len(a) :
        /\ a[i] > b[i]
        /\ \A j \in 1..(i - 1) : a[j] = b[j]

\* the commitSHA field as the upstream automation fills it: the SHA of this
\* run's commit in a record of the current build, another commit's SHA in a
\* record of the previous build
ShaOf(build) == IF build = "cur" THEN {"target"} ELSE {"other"}

\* None
None == [id |-> 0, createdTime |-> Iso(0), commitSHA |-> "", build |-> "none",
         buildStatus |-> "none"]

NewRecord(i, t, sha, b) ==
    [id |-> i, createdTime |-> Iso(t), commitSHA |-> sha, build |-> b,
     buildStatus |-> "none"]

\* the records the upstream automation may have created before the run
InitRecordKinds ==
    { NewRecord(0, StartTime - a, sha, "prev") : a \in PrevAges, sha \in ShaOf("prev") }
    \cup
    { NewRecord(0, StartTime - a, sha, "cur") : a \in CurAges, sha \in ShaOf("cur") }

\* a store of n records in any order, the store giving each a unique id
InitStores ==
    UNION { { [i \in 1..n |-> [f[i] EXCEPT !.id = i]] :
                f \in [1..n -> InitRecordKinds] } : n \in 0..MaxInitRecords }

(* ------------------------------- state --------------------------------- *)

VARIABLES
    pc,            \* where the run is
    argv,          \* sys.argv
    env,           \* the three environment variables
    store,         \* the records of the table, in the order table.all() lists them
    clock,         \* the wall clock, in seconds
    attempt,       \* the loop variable of find_deployment_record
    all_records,   \* the snapshot the last table.all() returned
    now,           \* datetime.now() of the last round that had records
    target_record, \* what find_deployment_record returned (None before)
    record_id,     \* the id passed to table.update (0 before)
    out,           \* the lines printed so far
    readCalls,     \* number of table.all() calls
    updateCalls,   \* number of table.update() calls
    slept,         \* seconds spent in time.sleep
    exit_code      \* the process exit code (-1 while running)

vars == << pc, argv, env, store, clock, attempt, all_records, now,
           target_record, record_id, out, readCalls, updateCalls, slept,
           exit_code >>

Line(text, n) == [line |-> text, n |-> n]

Init ==
    /\ pc = "main"
    /\ argv \in ArgvChoices
    /\ env \in [{"AIRTABLE_API_KEY", "AIRTABLE_BASE_ID",
                 "AIRTABLE_DEPLOYMENTS_TABLE_ID"} -> EnvValues]
    /\ store \in InitStores
    /\ clock = StartTime
    /\ attempt = 0
    /\ all_records = << >>
    /\ now = 0
    /\ target_record = None
    /\ record_id = 0
    /\ out = << >>
    /\ readCalls = 0
    /\ updateCalls = 0
    /\ slept = 0
    /\ exit_code = -1

(* ------------------------- pure parts of the code ---------------------- *)

\* len(sys.argv) < 3
TooFewArguments(args) == Len(args) < 3

\* one more status let through: status not in ["Success", "Failed", "Done"]
InvalidStatusLax(status) == status \notin {"Success", "Failed", "Done"}

\* status not in ["Success", "Failed"]
InvalidStatus(status) == status \notin {"Success", "Failed"}

\* truth value of what os.getenv returned: None and "" are false
Truthy(v) == v # "None" /\ v # ""

\* any for all: any([api_key, base_id, table_id])
HaveCredentialsAny(api_key, base_id, table_id) ==
    Truthy(api_key) \/ Truthy(base_id) \/ Truthy(table_id)

\* all([api_key, base_id, table_id])
HaveCredentials(api_key, base_id, table_id) ==
    Truthy(api_key) /\ Truthy(base_id) /\ Truthy(table_id)

\* the result ignored: sys.exit(0)
ExitCodeZero(success) == 0

\* the codes swapped: 1 if success else 0
ExitCodeSwapped(success) == IF success THEN 1 ELSE 0

\* 0 if success else 1
ExitCode(success) == IF success THEN 0 ELSE 1

\* the last attempt dropped: range(1, max_attempts)
InRangeShort(a) == 1 <= a /\ a < max_attempts

\* no last attempt: itertools.count(1)
InRangeUnbounded(a) == 1 <= a

\* for attempt in range(1, max_attempts + 1)
InRange(a) == 1 <= a /\ a < max_attempts + 1

\* the last attempt included: if attempt <= max_attempts
MoreAttemptsInclusive(a) == a <= max_attempts

\* one attempt too few: if attempt < max_attempts - 1
MoreAttemptsShort(a) == a < max_attempts - 1

\* if attempt < max_attempts
MoreAttempts(a) == a < max_attempts

\* ties the other way round, as sorted(..., key=...)[::-1] orders them
SortsBeforeOrEqual(x, y) == ~StrGreater(y.createdTime, x.createdTime)

\* key=lambda x: x['createdTime'], reverse=True: does x sort before y
SortsBefore(x, y) == StrGreater(x.createdTime, y.createdTime)

\* sorted(...) is stable: x, which came first, goes before the first record
\* that does not sort before it
RECURSIVE InsertSorted(_, _)
InsertSorted(x, t) ==
    IF t = << >> THEN << x >>
    ELSE IF SortsBefore(t[1], x) THEN << t[1] >> \o InsertSorted(x, Tail(t))
    ELSE << x >> \o t

RECURSIVE sorted(_)
sorted(records) ==
    IF records = << >> THEN << >>
    ELSE InsertSorted(Head(records), sorted(Tail(records)))

\* most_recent = sorted_records[0]
MostRecent(records) == sorted(records)[1]

\* the operands swapped: (created_time - now).total_seconds()
AgeSecondsSwapped(t, record) == fromisoformat(record.createdTime) - t

\* age_seconds = (now - created_time).total_seconds()
AgeSeconds(t, record) == t - fromisoformat(record.createdTime)

\* the boundary included: if age_seconds <= 300
IsRecentInclusive(age_seconds) == age_seconds <= FreshnessSeconds

\* if age_seconds < 300
IsRecent(age_seconds) == age_seconds < FreshnessSeconds

\* the record id ignored: the status written to every record
UpdatedAll(records, rid, status) ==
    [i \in 1..Len(records) |-> [records[i] EXCEPT !.buildStatus = status]]

\* the selection of one round: what the loop body does with the records
\* table.all() returned when datetime.now() is t (None: no record selected)
Select(records, t) ==
    IF records = << >> THEN None
    ELSE IF IsRecent(AgeSeconds(t, MostRecent(records))) THEN MostRecent(records)
    ELSE None

\* table.update(record_id, {'Build Status': status}) as the store applies it
Updated(records, rid, status) ==
    [i \in 1..Len(records) |->
        IF records[i].id = rid
        THEN [records[i] EXCEPT !.buildStatus = status]
        ELSE records[i]]

(* ------------------------------ the run -------------------------------- *)

\* sys.exit(code), after printing the lines
Exit(lines, code) ==
    /\ out' = out \o lines
    /\ exit_code' = code
    /\ pc' = "exited"

\* __main__: argument checks, then the call of update_deployment_status
Main ==
    /\ pc = "main"
    /\ IF TooFewArguments(argv)
       THEN Exit(<< Line("Usage", 0) >>, 1)
       ELSE IF InvalidStatus(argv[2])
       THEN Exit(<< Line("ERROR: Invalid status", 0) >>, 1)
       ELSE /\ pc' = "update_deployment_status"
            /\ UNCHANGED << out, exit_code >>
    /\ UNCHANGED << argv, env, store, clock, attempt, all_records, now,
                    target_record, record_id, readCalls, updateCalls, slept >>

\* update_deployment_status up to the call of find_deployment_record
CheckCredentials ==
    /\ pc = "update_deployment_status"
    /\ IF ~HaveCredentials(env["AIRTABLE_API_KEY"], env["AIRTABLE_BASE_ID"],
                           env["AIRTABLE_DEPLOYMENTS_TABLE_ID"])
       THEN /\ Exit(<< Line("ERROR: Missing Airtable credentials", 0) >>,
                    ExitCode(FALSE))
            /\ UNCHANGED attempt
       ELSE \* range(1, max_attempts + 1) starts at 1
            /\ pc' = "poll"
            /\ attempt' = 1
            /\ UNCHANGED << out, exit_code >>
    /\ UNCHANGED << argv, env, store, clock, all_records, now,
                    target_record, record_id, readCalls, updateCalls, slept >>

\* the test inverted: if target_record
NotFoundInverted(record) == record # None

\* if not target_record
NotFound(record) == record = None

\* find_deployment_record returns record to update_deployment_status
Return(lines, record) ==
    /\ target_record' = record
    /\ IF NotFound(record)
       THEN Exit(lines \o << Line("ERROR: Could not find deployment record", 0) >>,
                 ExitCode(FALSE))
       ELSE /\ pc' = "update"
            /\ out' = out \o lines
            /\ UNCHANGED exit_code

\* the end of a loop body: the next attempt, or the end of the loop, where
\* find_deployment_record returns None and the run fails
LoopNext(lines) ==
    IF InRange(attempt + 1)
    THEN /\ attempt' = attempt + 1
         /\ pc' = "poll"
         /\ out' = out \o lines
         /\ UNCHANGED << exit_code, target_record >>
    ELSE /\ Return(lines \o
                   << Line("WARNING: Could not find recent deployment record", 0) >>,
                   None)
         /\ UNCHANGED attempt

\* a failed read swallowed: table.all() wrapped in try/except inside the
\* loop, the round then counting as one without records
RoundSwallowsReadError ==
    /\ pc = "poll"
    /\ readCalls' = readCalls + 1
    /\ LET head == << Line("Attempt", attempt) >> IN
       \/ \* table.all() raises
          /\ UNCHANGED << all_records, now >>
          /\ IF MoreAttempts(attempt)
             THEN /\ pc' = "sleep"
                  /\ out' = out \o head \o << Line("Waiting", wait_seconds) >>
                  /\ UNCHANGED << attempt, exit_code, target_record >>
             ELSE /\ Return(head, None)
                  /\ UNCHANGED attempt
       \/ \* table.all() returns the records the store holds
          /\ all_records' = store
          /\ IF store = << >>
             THEN /\ UNCHANGED now
                  /\ IF MoreAttempts(attempt)
                     THEN /\ pc' = "sleep"
                          /\ out' = out \o head \o
                                << Line("No records found", 0), Line("Waiting", wait_seconds) >>
                          /\ UNCHANGED << attempt, exit_code, target_record >>
                     ELSE /\ Return(head \o << Line("No records found", 0) >>, None)
                          /\ UNCHANGED attempt
             ELSE LET most_recent == MostRecent(store)
                      age_seconds == AgeSeconds(clock, most_recent)
                      seen == head \o << Line("Most recent record age", age_seconds),
                                         Line("Record ID", most_recent.id) >>
                  IN  /\ now' = clock
                      /\ IF IsRecent(age_seconds)
                         THEN /\ Return(seen \o << Line("Found recent record", age_seconds) >>,
                                         most_recent)
                              /\ UNCHANGED attempt
                         ELSE IF MoreAttempts(attempt)
                         THEN /\ pc' = "sleep"
                              /\ out' = out \o seen \o
                                    << Line("No recent record found, waiting", wait_seconds) >>
                              /\ UNCHANGED << attempt, exit_code, target_record >>
                         ELSE LoopNext(seen)
    /\ UNCHANGED << argv, env, store, clock, record_id, updateCalls, slept >>

\* one iteration of the loop of find_deployment_record, up to its sleep
Round ==
    /\ pc = "poll"
    /\ readCalls' = readCalls + 1
    /\ LET head == << Line("Attempt", attempt) >> IN
       \/ \* table.all() raises: caught by the except of update_deployment_status
          /\ Exit(head \o << Line("ERROR updating Airtable", 0) >>, ExitCode(FALSE))
          /\ UNCHANGED << attempt, all_records, now, target_record >>
       \/ \* table.all() returns the records the store holds
          /\ all_records' = store
          /\ IF store = << >>
             THEN /\ UNCHANGED now
                  /\ IF MoreAttempts(attempt)
                     THEN /\ pc' = "sleep"
                          /\ out' = out \o head \o
                                << Line("No records found", 0), Line("Waiting", wait_seconds) >>
                          /\ UNCHANGED << attempt, exit_code, target_record >>
                     ELSE /\ Return(head \o << Line("No records found", 0) >>, None)
                          /\ UNCHANGED attempt
             ELSE LET most_recent == MostRecent(store)
                      age_seconds == AgeSeconds(clock, most_recent)
                      seen == head \o << Line("Most recent record age", age_seconds),
                                         Line("Record ID", most_recent.id) >>
                  IN  /\ now' = clock
                      /\ IF IsRecent(age_seconds)
                         THEN /\ Return(seen \o << Line("Found recent record", age_seconds) >>,
                                         most_recent)
                              /\ UNCHANGED attempt
                         ELSE IF MoreAttempts(attempt)
                         THEN /\ pc' = "sleep"
                              /\ out' = out \o seen \o
                                    << Line("No recent record found, waiting", wait_seconds) >>
                              /\ UNCHANGED << attempt, exit_code, target_record >>
                         ELSE LoopNext(seen)
    /\ UNCHANGED << argv, env, store, clock, record_id, updateCalls, slept >>

\* time.sleep(wait_seconds), then the next iteration
Sleep ==
    /\ pc = "sleep"
    /\ clock' = clock + wait_seconds
    /\ slept' = slept + wait_seconds
    /\ LoopNext(<< >>)
    /\ UNCHANGED << argv, env, store, all_records, now,
                    record_id, readCalls, updateCalls >>

\* the record looked up again: the id of the most recent record of the store
\* at the time of the update
UpdateNewestNow ==
    /\ pc = "update"
    /\ record_id' = MostRecent(store)["id"]
    /\ updateCalls' = updateCalls + 1
    /\ \/ /\ store' = Updated(store, MostRecent(store)["id"], argv[2])
          /\ Exit(<< Line("Successfully updated deployment status", 0),
                     Line("Record ID", MostRecent(store)["id"]) >>, ExitCode(TRUE))
       \/ /\ store' \in {store, Updated(store, MostRecent(store)["id"], argv[2])}
          /\ Exit(<< Line("ERROR updating Airtable", 0) >>, ExitCode(FALSE))
    /\ UNCHANGED << argv, env, clock, attempt, all_records, now,
                    target_record, readCalls, slept >>

\* a failed update tried once more before giving up
UpdateRetries ==
    /\ pc = "update"
    /\ record_id' = target_record["id"]
    /\ updateCalls' = updateCalls + 1
    /\ \/ /\ store' = Updated(store, target_record["id"], argv[2])
          /\ Exit(<< Line("Successfully updated deployment status", 0),
                     Line("Record ID", target_record["id"]) >>, ExitCode(TRUE))
       \/ /\ store' \in {store, Updated(store, target_record["id"], argv[2])}
          /\ IF updateCalls = 0
             THEN UNCHANGED << pc, out, exit_code >>
             ELSE Exit(<< Line("ERROR updating Airtable", 0) >>, ExitCode(FALSE))
    /\ UNCHANGED << argv, env, clock, attempt, all_records, now,
                    target_record, readCalls, slept >>

\* a failed update reported with the message of a failed search
UpdateReportsNotFound ==
    /\ pc = "update"
    /\ record_id' = target_record["id"]
    /\ updateCalls' = updateCalls + 1
    /\ \/ /\ store' = Updated(store, target_record["id"], argv[2])
          /\ Exit(<< Line("Successfully updated deployment status", 0),
                     Line("Record ID", target_record["id"]) >>, ExitCode(TRUE))
       \/ /\ store' \in {store, Updated(store, target_record["id"], argv[2])}
          /\ Exit(<< Line("ERROR: Could not find deployment record", 0) >>,
                  ExitCode(FALSE))
    /\ UNCHANGED << argv, env, clock, attempt, all_records, now,
                    target_record, readCalls, slept >>

\* table.update(record_id, {'Build Status': status}) and the end of the run
Update ==
    /\ pc = "update"
    /\ record_id' = target_record["id"]
    /\ updateCalls' = updateCalls + 1
    /\ \/ \* the call returns
          /\ store' = Updated(store, target_record["id"], argv[2])
          /\ Exit(<< Line("Successfully updated deployment status", 0),
                     Line("Record ID", target_record["id"]) >>, ExitCode(TRUE))
       \/ \* the call raises, the store having applied the update or not
          /\ store' \in {store, Updated(store, target_record["id"], argv[2])}
          /\ Exit(<< Line("ERROR updating Airtable", 0) >>, ExitCode(FALSE))
    /\ UNCHANGED << argv, env, clock, attempt, all_records, now,
                    target_record, readCalls, slept >>

(* --------------------------- the environment --------------------------- *)

\* the upstream automation creates a record while the run polls, sleeps or
\* is about to update (a record created earlier is in the store the run
\* starts with); the store stamps it with the current time and lists it
\* first or last
Insert ==
    /\ pc \in {"poll", "sleep", "update"}
    /\ Len(store) < MaxRecords
    /\ \E b \in {"cur", "prev"} : \E sha \in ShaOf(b) :
          LET r == NewRecord(Len(store) + 1, clock, sha, b) IN
          store' \in { Append(store, r), << r >> \o store }
    /\ UNCHANGED << pc, argv, env, clock, attempt, all_records, now,
                    target_record, record_id, out, readCalls, updateCalls,
                    slept, exit_code >>

\* a second passes before table.all() and datetime.now() of a round, or
\* between the round that found the record and table.update
Tick ==
    /\ pc \in {"poll", "update"}
    /\ clock - StartTime - slept < MaxDrift
    /\ clock' = clock + 1
    /\ UNCHANGED << pc, argv, env, store, attempt, all_records, now,
                    target_record, record_id, out, readCalls, updateCalls,
                    slept, exit_code >>

Next == Main \/ CheckCredentials \/ Round \/ Sleep \/ Update \/ Insert \/ Tick

Spec == Init /\ [][Next]_vars

TypeOK ==
    /\ pc \in {"main", "update_deployment_status", "poll", "sleep", "update", "exited"}
    /\ exit_code \in {-1, 0, 1}
    /\ attempt \in 0..max_attempts
    /\ Len(store) <= MaxRecords

(* --------------------- reading the printed lines ----------------------- *)

\* some printed line has this text
Printed(text) == \E i \in 1..Len(out) : out[i].line = text

\* number of polling rounds started
RoundsRun == Cardinality({ i \in 1..Len(out) : out[i].line = "Attempt" })

\* round k read a snapshot whose most recent record was younger than 300 s
RoundMatched(k) ==
    \E i \in 1..(Len(out) - 1) :
        /\ out[i] = Line("Attempt", k)
        /\ out[i + 1].line = "Most recent record age"
        /\ out[i + 1].n < 300

\* round k read an empty snapshot, or one whose most recent record was
\* 300 s old or older
RoundUnmatched(k) ==
    \E i \in 1..(Len(out) - 1) :
        /\ out[i] = Line("Attempt", k)
        /\ \/ out[i + 1].line = "No records found"
           \/ out[i + 1].line = "Most recent record age" /\ out[i + 1].n >= 300

\* round k read an empty snapshot
RoundEmpty(k) ==
    \E i \in 1..(Len(out) - 1) :
        out[i] = Line("Attempt", k) /\ out[i + 1].line = "No records found"

\* the scheduler states of the spec
Found == target_record # None
Exhausted == pc = "exited" /\ Printed("ERROR: Could not find deployment record")

(* ------------------------------- claims -------------------------------- *)

\* C1: a run calls table.update at most once, and a run in which
\* find_deployment_record returned a record has called it exactly once by
\* the time it ends.
C1_UpdateOnce ==
    /\ updateCalls <= 1
    /\ (pc = "exited" /\ Found) => updateCalls = 1

C1_Witness == pc = "exited" /\ Found /\ updateCalls = 1 /\ Len(store) = MaxRecords

\* C2: the scheduler is Found in the first round whose snapshot matches and
\* runs no round after it, also when that round is round max_attempts; it is
\* Exhausted only after max_attempts rounds none of which matched; while it
\* is still polling no round has matched.
C2_FirstMatchWins ==
    /\ Found =>
          /\ attempt \in 1..max_attempts
          /\ RoundsRun = attempt /\ readCalls = attempt
          /\ RoundMatched(attempt)
          /\ \A k \in 1..(attempt - 1) : RoundUnmatched(k)
    /\ Exhausted =>
          /\ RoundsRun = max_attempts /\ readCalls = max_attempts
          /\ \A k \in 1..max_attempts : RoundUnmatched(k)
    /\ pc \in {"poll", "sleep"} =>
          \A k \in 1..max_attempts : ~RoundMatched(k)

\* scenario B: five empty rounds, then a match in the last round
C2_Witness ==
    /\ Found /\ attempt = max_attempts
    /\ \A k \in 1..(max_attempts - 1) : RoundEmpty(k)

\* C3: a run whose max_attempts rounds all went unmatched has no record and
\* ends in failure without an update, and no run exits 0 unless one of its
\* rounds matched.
C3_TimeoutIsFailure ==
    /\ (RoundsRun = max_attempts /\ \A k \in 1..max_attempts : RoundUnmatched(k)) =>
          /\ pc = "exited" /\ exit_code = 1
          /\ target_record = None /\ updateCalls = 0
    /\ exit_code = 0 => \E k \in 1..max_attempts : RoundMatched(k)

C3_Witness ==
    /\ pc = "exited" /\ exit_code = 1 /\ RoundsRun = max_attempts
    /\ \A k \in 1..max_attempts : RoundUnmatched(k)
    /\ all_records # << >>

\* a measure of the work the run has left
Variant ==
    CASE pc = "main" -> 2 * max_attempts + 4
      [] pc = "update_deployment_status" -> 2 * max_attempts + 3
      [] pc = "poll" -> 2 * (max_attempts - attempt) + 3
      [] pc = "sleep" -> 2 * (max_attempts - attempt) + 2
      [] pc = "update" -> 1
      [] OTHER -> 0

\* C4: every step of the run brings it closer to its end, it never starts
\* more than max_attempts rounds, and when no round has matched it ends,
\* after round max_attempts at the latest, in failure, whatever the upstream
\* automation inserts in between.
C4_Terminates ==
    [][ /\ (pc' # pc \/ attempt' # attempt \/ readCalls' # readCalls \/ out' # out)
            => (Variant' < Variant /\ Variant' >= 0)
        /\ readCalls' <= max_attempts
        /\ (readCalls' = max_attempts /\ pc' # "poll" /\ ~Found')
            => (pc' = "exited" /\ exit_code' = 1)
      ]_vars

\* max_attempts rounds over a store that stays empty
C4_Witness ==
    /\ pc = "exited" /\ exit_code = 1 /\ readCalls = max_attempts /\ ~Found
    /\ \A k \in 1..max_attempts : RoundEmpty(k)

\* the greatest createdTime in a snapshot
MaxCreated(records) ==
    CHOOSE t \in { fromisoformat(records[i].createdTime) : i \in 1..Len(records) } :
        \A i \in 1..Len(records) : fromisoformat(records[i].createdTime) <= t

C5_Rejected300 ==
    /\ Len(all_records) = 1 /\ now - MaxCreated(all_records) = 300 /\ ~Found
    /\ pc = "sleep"

\* C6: whenever the snapshot of a round holds a record whose commitSHA
\* equals the target commit SHA among its 10 most recent records, the round
\* selects a record with that commitSHA.
C6_ShaMatchSelected ==
    (/\ Len(all_records) <= 10
     /\ \E i \in 1..Len(all_records) : all_records[i].commitSHA = argv[3])
        => (Found /\ target_record.commitSHA = argv[3])

\* the two builds finished at least 300 s apart, and every record was
\* created after the build it belongs to finished
BuildsSerialized ==
    /\ PrevBuildAge - CurBuildAge >= FreshnessSeconds
    /\ \A i \in 1..Len(store) :
          fromisoformat(store[i].createdTime) >=
              StartTime - (IF store[i].build = "cur" THEN CurBuildAge ELSE PrevBuildAge)

\* C7 as stated: with serialized builds, the record a run updates is the
\* record created for the current build.
C7_SerializedBuildsSuffice ==
    (BuildsSerialized /\ updateCalls > 0) =>
        \E i \in 1..Len(store) : store[i].id = record_id /\ store[i].build = "cur"

\* every record of the snapshot younger than 300 s belongs to the current build
OnlyCurrentBuildIsRecent ==
    \A i \in 1..Len(all_records) :
        now - fromisoformat(all_records[i].createdTime) < 300
            => all_records[i].build = "cur"

\* C7 amended: when every record younger than 300 s in the snapshot of the
\* matching round belongs to the current build, the record the run selects
\* and updates is a record of the current build.
C7_NoOtherRecentRecord ==
    /\ (Found /\ OnlyCurrentBuildIsRecent) => target_record.build = "cur"
    /\ (updateCalls > 0 /\ OnlyCurrentBuildIsRecent) =>
          \E i \in 1..Len(store) : store[i].id = record_id /\ store[i].build = "cur"

\* the current build's record is updated although the snapshot also held a
\* record of the previous build
C7_Witness ==
    /\ updateCalls = 1 /\ target_record.build = "cur" /\ record_id = target_record.id
    /\ OnlyCurrentBuildIsRecent
    /\ \E i \in 1..Len(all_records) : all_records[i].build = "prev"

\* C8: the process exits 0 only after table.update was called and returned,
\* the record then carrying the status; a run that ends in a usage error, a
\* configuration error, a discovery timeout or a failed store call exits 1.
C8_ExitContract ==
    /\ pc = "exited" <=> exit_code \in {0, 1}
    /\ exit_code = 0 =>
          /\ updateCalls = 1
          /\ Printed("Successfully updated deployment status")
          /\ \E i \in 1..Len(store) :
                store[i].id = record_id /\ store[i].buildStatus = argv[2]
    /\ (pc = "exited" /\ \/ Printed("Usage")
                         \/ Printed("ERROR: Invalid status")
                         \/ Printed("ERROR: Missing Airtable credentials")
                         \/ Printed("ERROR: Could not find deployment record")
                         \/ Printed("ERROR updating Airtable"))
          => exit_code = 1

C8_Witness ==
    /\ exit_code = 0 /\ updateCalls = 1 /\ readCalls > 1
    /\ \E i \in 1..Len(store) : store[i].id = record_id /\ store[i].buildStatus = "Failed"

\* C9: a run whose status argument is neither Success nor Failed never
\* reads or updates the store and ends with exit code 1.
C9_InvalidStatusRejected ==
    (Len(argv) >= 3 /\ argv[2] \notin {"Success", "Failed"}) =>
        /\ pc \in {"main", "exited"}
        /\ readCalls = 0 /\ updateCalls = 0
        /\ pc = "exited" => (exit_code = 1 /\ out = << Line("ERROR: Invalid status", 0) >>)

C9_Witness ==
    /\ Len(argv) >= 3 /\ argv[2] = "Done"
    /\ pc = "exited" /\ exit_code = 1 /\ readCalls = 0
    /\ \A v \in DOMAIN env : Truthy(env[v])

\* C10: a run with the API key, the base id or the table id unset never
\* reads or updates the store and ends with exit code 1.
C10_MissingCredentials ==
    (\E v \in DOMAIN env : env[v] = "None") =>
        /\ pc \in {"main", "update_deployment_status", "exited"}
        /\ readCalls = 0 /\ updateCalls = 0
        /\ pc = "exited" => exit_code = 1

\* valid arguments, only the table id unset
C10_Witness ==
    /\ Len(argv) >= 3 /\ argv[2] = "Success"
    /\ env["AIRTABLE_API_KEY"] = "value" /\ env["AIRTABLE_BASE_ID"] = "value"
    /\ env["AIRTABLE_DEPLOYMENTS_TABLE_ID"] = "None"
    /\ pc = "exited" /\ exit_code = 1 /\ readCalls = 0
    /\ out = << Line("ERROR: Missing Airtable credentials", 0) >>

\* what the output of a run whose update failed looks like: a record was
\* announced as found and the last line is the error of the except clause
ReportsUpdateFailed ==
    /\ Printed("Found recent record")
    /\ out # << >> /\ out[Len(out)].line = "ERROR updating Airtable"

\* C11: a finished run prints the found-then-error output exactly when its
\* update call failed; that output has none of the lines of the other
\* outcomes, and the output of a failed search is printed only by runs that
\* found no record and called no update.
C11_UpdateFailureDistinct ==
    pc = "exited" =>
        /\ (updateCalls = 1 /\ exit_code = 1) <=> ReportsUpdateFailed
        /\ ReportsUpdateFailed =>
              /\ ~Printed("ERROR: Could not find deployment record")
              /\ ~Printed("ERROR: Missing Airtable credentials")
              /\ ~Printed("ERROR: Invalid status") /\ ~Printed("Usage")
              /\ ~Printed("Successfully updated deployment status")
        /\ Printed("ERROR: Could not find deployment record") =>
              (~Found /\ updateCalls = 0 /\ ~Printed("ERROR updating Airtable"))

\* the update of a found record raised, the store not having applied it
C11_Witness ==
    /\ pc = "exited" /\ Found /\ updateCalls = 1 /\ exit_code = 1
    /\ \A i \in 1..Len(store) : store[i].buildStatus = "none"

\* the run ended in the except clause without having called table.update:
\* table.all() raised
ReadFailed ==
    /\ pc = "exited" /\ updateCalls = 0
    /\ out # << >> /\ out[Len(out)].line = "ERROR updating Airtable"

\* C12: a round whose table.all() returns no records selects nothing; before
\* round max_attempts it goes to the sleep, after which the next round
\* starts, and in round max_attempts it ends the run as exhausted; every
\* round works on the records the store holds at its own read.
C12_EmptyRoundRetries ==
    [][ /\ (readCalls' = readCalls + 1 /\ store = << >> /\ ~ReadFailed') =>
              /\ ~Found' /\ all_records' = << >>
              /\ IF attempt < max_attempts
                 THEN pc' = "sleep" /\ attempt' = attempt /\ exit_code' = -1
                 ELSE Exhausted' /\ exit_code' = 1
        /\ (pc = "sleep" /\ pc' # "sleep") =>
              /\ pc' = "poll" /\ attempt' = attempt + 1
              /\ attempt' <= max_attempts /\ readCalls' = readCalls
        /\ (readCalls' = readCalls + 1 /\ ~ReadFailed') => all_records' = store
      ]_vars

\* an empty first round, then a second round that reads the record the
\* automation created in between
C12_Witness ==
    /\ RoundEmpty(1) /\ attempt = 2 /\ readCalls = 2
    /\ Found /\ Len(all_records) = 1

\* C13: the run sleeps wait_seconds exactly after an unmatched round that is
\* not round max_attempts, and after no other round; a round starts only
\* when all rounds before it and their sleeps are over; the run sleeps at
\* most max_attempts - 1 times, so never longer than max_attempts times
\* wait_seconds.
C13_WaitsBetweenRounds ==
    [][ /\ slept' # slept =>
              /\ pc = "sleep" /\ slept' = slept + wait_seconds
              /\ RoundUnmatched(attempt) /\ attempt < max_attempts /\ ~Found
        /\ readCalls' = readCalls + 1 =>
              /\ readCalls = attempt - 1
              /\ slept = (attempt - 1) * wait_seconds
              /\ pc' = "sleep" <=> (RoundUnmatched(attempt)' /\ attempt < max_attempts)
        /\ slept' <= (max_attempts - 1) * wait_seconds
        /\ slept' <= max_attempts * wait_seconds
      ]_vars

\* a run of max_attempts unmatched rounds: a sleep after each but the last
C13_Witness ==
    /\ pc = "exited" /\ RoundsRun = max_attempts /\ RoundUnmatched(max_attempts)
    /\ slept = (max_attempts - 1) * wait_seconds
    /\ clock - StartTime >= slept

\* C14: the step that calls table.update ends the run, and when the call
\* failed it ends it with exit code 1 after that single call, with no more
\* read, sleep or attempt; a run that has ended takes no further step.
C14_UpdateFailureIsTerminal ==
    [][ /\ updateCalls' # updateCalls =>
              /\ pc = "update" /\ pc' = "exited" /\ updateCalls' = 1
              /\ readCalls' = readCalls /\ slept' = slept /\ attempt' = attempt
              /\ exit_code' \in {0, 1}
              /\ exit_code' = 1 <=> out'[Len(out')].line = "ERROR updating Airtable"
              /\ exit_code' = 0 <=> Printed("Successfully updated deployment status")'
        /\ pc # "exited"
      ]_vars

\* the update raised after the store had applied it, in a later round
C14_Witness ==
    /\ pc = "exited" /\ updateCalls = 1 /\ exit_code = 1 /\ readCalls >= 2
    /\ \E i \in 1..Len(store) :
          store[i].id = record_id /\ store[i].buildStatus = argv[2]

\* C15: a step of the run other than the update call leaves the store as it
\* is, so until the update call every record is as the automation created
\* it; the update call passes the id of the selected record and changes at
\* most the buildStatus of the one record with that id, to the status
\* argument (and does so when it returns); every other change of the store
\* is a record added by the automation.
C15_OnlyBuildStatusWritten ==
    [][ /\ (updateCalls' = updateCalls /\ pc' # pc) => store' = store
        /\ updateCalls' = 0 =>
              \A i \in 1..Len(store') : store'[i].buildStatus = "none"
        /\ updateCalls' # updateCalls =>
              /\ record_id' = target_record.id
              /\ Len(store') = Len(store)
              /\ Cardinality({ i \in 1..Len(store) : store[i].id = target_record.id }) = 1
              /\ \A i \in 1..Len(store) :
                    IF store[i].id = target_record.id
                    THEN /\ store'[i] \in { store[i],
                                           [store[i] EXCEPT !.buildStatus = argv[2]] }
                         /\ exit_code' = 0 => store'[i].buildStatus = argv[2]
                    ELSE store'[i] = store[i]
        /\ (store' # store /\ updateCalls' = updateCalls) =>
              /\ Len(store') = Len(store) + 1
              /\ \/ SubSeq(store', 1, Len(store)) = store
                 \/ SubSeq(store', 2, Len(store')) = store
      ]_vars

\* a successful update in a store of two records: one carries the status,
\* the other is untouched
C15_Witness ==
    /\ pc = "exited" /\ exit_code = 0 /\ Len(store) = 2
    /\ \E i, j \in 1..2 :
          /\ store[i].id = record_id /\ store[i].buildStatus = argv[2]
          /\ store[j].id # record_id /\ store[j].buildStatus = "none"

\* the times a round of some run can take place
RoundTimes == StartTime..(StartTime + max_attempts * wait_seconds)

\* C16 as stated: the snapshot (and the target) alone decide the selection:
\* a round given the snapshot of the last round selects, at any time, what
\* that round selected.
C16_SnapshotAloneDecides ==
    all_records # << >> =>
        \A t \in RoundTimes : Select(all_records, t) = Select(all_records, now)

\* the first record, in snapshot order, among those with the greatest createdTime
FirstNewest(records) ==
    records[CHOOSE i \in 1..Len(records) :
                /\ fromisoformat(records[i].createdTime) = MaxCreated(records)
                /\ \A j \in 1..(i - 1) :
                      fromisoformat(records[j].createdTime) < MaxCreated(records)]

\* C16 amended: the selection of a round is a function of its snapshot and
\* the time of the round: it is the first record in snapshot order among
\* those with the greatest createdTime when that record is younger than
\* 300 s, and none otherwise; and a round of a run that reads the snapshot
\* the round before it read selects none, as that round did.
C16_SnapshotAndTimeDecide ==
    [][ /\ target_record' = Select(all_records', now')
        /\ all_records' # << >> =>
              target_record' = IF now' - MaxCreated(all_records') < 300
                               THEN FirstNewest(all_records') ELSE None
        /\ (readCalls' = readCalls + 1 /\ readCalls >= 1 /\ ~ReadFailed'
            /\ all_records' = all_records) => (~Found /\ ~Found')
      ]_vars

\* two different records with the same createdTime: the one listed first
\* is selected
C16_Witness ==
    /\ Len(all_records) = 2 /\ Found
    /\ all_records[1].createdTime = all_records[2].createdTime
    /\ all_records[1].build # all_records[2].build
    /\ target_record = all_records[1]

\* C17: once table.update has been called, the id it was called with is the
\* id of a record of the snapshot of the matching round, the last round of
\* the run, whose createdTime is the greatest of that snapshot and was less
\* than 300 s before the time of that round, whatever the automation has
\* added to the store since.
C17_UpdateTargetsSnapshotNewest ==
    updateCalls > 0 =>
        /\ readCalls = attempt /\ RoundsRun = attempt /\ RoundMatched(attempt)
        /\ record_id = target_record.id
        /\ \E i \in 1..Len(all_records) :
              /\ all_records[i].id = record_id
              /\ fromisoformat(all_records[i].createdTime) = MaxCreated(all_records)
              /\ now - fromisoformat(all_records[i].createdTime) < 300

\* the update went to a record that was no longer the most recent one: the
\* automation had added a newer record after the read
C17_Witness ==
    /\ updateCalls = 1 /\ exit_code = 0
    /\ \E i, j \in 1..Len(store) :
          /\ store[i].id = record_id /\ store[i].buildStatus = argv[2]
          /\ fromisoformat(store[j].createdTime) > fromisoformat(store[i].createdTime)
          /\ \A k \in 1..Len(all_records) : all_records[k].id # store[j].id

\* C18: a round whose table.all() fails (it prints neither of the lines that
\* follow a read) ends the run there with exit code 1, no record and no
\* update call; every other round prints what it read; and a run that has
\* ended reads no more.
C18_ReadFailureIsTerminal ==
    [][ /\ (readCalls' = readCalls + 1
            /\ ~RoundMatched(attempt)' /\ ~RoundUnmatched(attempt)') =>
              /\ pc' = "exited" /\ exit_code' = 1
              /\ ~Found' /\ updateCalls' = 0 /\ record_id' = 0
              /\ store' = store /\ all_records' = all_records
              /\ out'[Len(out')].line = "ERROR updating Airtable"
              /\ RoundsRun' = attempt /\ readCalls' = attempt
        /\ (readCalls' = readCalls + 1 /\ pc' # "exited") =>
              (RoundMatched(attempt)' \/ RoundUnmatched(attempt)')
        /\ pc = "exited" => (readCalls' = readCalls /\ updateCalls' = updateCalls)
      ]_vars

\* the read of the third round fails
C18_Witness ==
    /\ ReadFailed /\ exit_code = 1 /\ readCalls = 3 /\ attempt = 3
    /\ RoundUnmatched(1) /\ RoundUnmatched(2)

====
